---- MODULE Spec2Model ----
(***************************************************************************)
(* A model of main.py, the Uganda agriculture news scraper.                *)
(*                                                                         *)
(* Text is modelled at two levels.  URLs, titles, bodies and keywords are  *)
(* sequences of one-character strings, so that the path patterns and the   *)
(* keyword filter are computed character by character.  An oracle reply is *)
(* a sequence of tokens (prose, whitespace, code fences, brackets, commas  *)
(* and JSON values); the regular expressions that locate the JSON payload  *)
(* and json.loads work on those tokens.                                    *)
(***************************************************************************)
EXTENDS Integers, Sequences, FiniteSets, TLC

(***************************************************************************)
(* Bounds of the model.                                                    *)
(***************************************************************************)
\* How many discovery replies of one run carry anything but an error or
\* plain prose; the remaining replies are errors or prose.
MaxListings == 2

\* How many sites of UGANDA_NEWS_SITES, from the first on, a run walks through
MaxSites == 1

(***************************************************************************)
(* Characters and strings.                                                 *)
(***************************************************************************)
Lower ==
    {"a", "b", "c", "d", "e", "f", "g", "h", "i", "j", "k", "l", "m",
     "n", "o", "p", "q", "r", "s", "t", "u", "v", "w", "x", "y", "z"}

Digit == {"0", "1", "2", "3", "4", "5", "6", "7", "8", "9"}

\* str.lower() on one character
LowerChar(c) ==
    CASE c = "A" -> "a" [] c = "B" -> "b" [] c = "C" -> "c" [] c = "D" -> "d"
      [] c = "E" -> "e" [] c = "F" -> "f" [] c = "G" -> "g" [] c = "H" -> "h"
      [] c = "I" -> "i" [] c = "J" -> "j" [] c = "K" -> "k" [] c = "L" -> "l"
      [] c = "M" -> "m" [] c = "N" -> "n" [] c = "O" -> "o" [] c = "P" -> "p"
      [] c = "Q" -> "q" [] c = "R" -> "r" [] c = "S" -> "s" [] c = "T" -> "t"
      [] c = "U" -> "u" [] c = "V" -> "v" [] c = "W" -> "w" [] c = "X" -> "x"
      [] c = "Y" -> "y" [] c = "Z" -> "z" [] OTHER -> c

\* str.lower()
LowerStr(s) == [i \in 1..Len(s) |-> LowerChar(s[i])]

\* needle in haystack (Python's substring test on str)
Contains(haystack, needle) ==
    \E i \in 1..(Len(haystack) - Len(needle) + 1) :
        /\ haystack[i] = needle[1]
        /\ SubSeq(haystack, i, i + Len(needle) - 1) = needle

(***************************************************************************)
(* Configuration: UGANDA_NEWS_SITES, AGRICULTURE_KEYWORDS.                 *)
(***************************************************************************)
UGANDA_NEWS_SITES ==
    << [name |-> "New Vision",
        url |-> "https://www.newvision.co.ug/category/business/agriculture",
        alternative_urls |-> << "https://www.newvision.co.ug/search?q=agriculture",
                                "https://www.newvision.co.ug/search?q=farming" >>],
       [name |-> "Daily Monitor",
        url |-> "https://www.monitor.co.ug/uganda/business/farming",
        alternative_urls |-> << "https://www.monitor.co.ug/uganda/magazines/farming",
                                "https://www.monitor.co.ug/uganda/search?q=agriculture" >>],
       [name |-> "UBC",
        url |-> "https://ubc.go.ug/category/agriculture",
        alternative_urls |-> << "https://ubc.go.ug/?s=agriculture",
                                "https://ubc.go.ug/?s=farming" >>],
       [name |-> "NTV Uganda",
        url |-> "https://www.ntv.co.ug/category/news/agriculture",
        alternative_urls |-> << "https://www.ntv.co.ug/search?q=agriculture",
                                "https://www.ntv.co.ug/search?q=farming" >>],
       [name |-> "NBS",
        url |-> "https://nbs.ug/tag/agriculture/",
        alternative_urls |-> << "https://nbs.ug/tag/farming/",
                                "https://nbs.ug/?s=agriculture" >>],
       [name |-> "Nile Post",
        url |-> "https://nilepost.co.ug/agriculture/",
        alternative_urls |-> << "https://nilepost.co.ug/?s=agriculture",
                                "https://nilepost.co.ug/?s=farming" >>] >>

AGRICULTURE_KEYWORDS ==
    << <<"a", "g", "r", "i", "c", "u", "l", "t", "u", "r", "e">>,
       <<"f", "a", "r", "m", "i", "n", "g">>,
       <<"c", "r", "o", "p", "s">>,
       <<"l", "i", "v", "e", "s", "t", "o", "c", "k">>,
       <<"i", "r", "r", "i", "g", "a", "t", "i", "o", "n">>,
       <<"h", "a", "r", "v", "e", "s", "t">>,
       <<"m", "a", "i", "z", "e">>,
       <<"c", "o", "f", "f", "e", "e">>,
       <<"d", "a", "i", "r", "y">>,
       <<"c", "a", "t", "t", "l", "e">>,
       <<"g", "o", "a", "t", "s">>,
       <<"v", "e", "g", "e", "t", "a", "b", "l", "e", "s">>,
       <<"f", "e", "r", "t", "i", "l", "i", "z", "e", "r">>,
       <<"a", "g", "r", "i", "c", "u", "l", "t", "u", "r", "a", "l">>,
       <<"f", "a", "r", "m">>,
       <<"f", "a", "r", "m", "e", "r">>,
       <<"f", "a", "r", "m", "e", "r", "s">>,
       <<"s", "e", "e", "d", "s">>,
       <<"p", "l", "a", "n", "t", "a", "t", "i", "o", "n">>,
       <<"s", "o", "i", "l">>,
       <<"p", "o", "u", "l", "t", "r", "y">>,
       <<"c", "h", "i", "c", "k", "e", "n", "s">>,
       <<"a", "g", "r", "i", "b", "u", "s", "i", "n", "e", "s", "s">>,
       <<"a", "g", "r", "i", "t", "e", "c", "h">>,
       <<"a", "g", "r", "o", "n", "o", "m", "y">>,
       <<"a", "g", "r", "o", "f", "o", "r", "e", "s", "t", "r", "y">>,
       <<"b", "a", "n", "a", "n", "a">>,
       <<"c", "a", "s", "s", "a", "v", "a">>,
       <<"c", "o", "t", "t", "o", "n">>,
       <<"r", "i", "c", "e">>,
       <<"f", "i", "s", "h">>,
       <<"f", "i", "s", "h", "e", "r", "i", "e", "s">>,
       <<"f", "o", "o", "d", " ", "s", "e", "c", "u", "r", "i", "t", "y">>,
       <<"p", "e", "s", "t", "i", "c", "i", "d", "e">>,
       <<"d", "r", "o", "u", "g", "h", "t">>,
       <<"r", "a", "i", "n">>,
       <<"w", "e", "a", "t", "h", "e", "r">>,
       <<"c", "l", "i", "m", "a", "t", "e">>,
       <<"g", "r", "a", "i", "n">>,
       <<"c", "r", "o", "p", " ", "d", "i", "s", "e", "a", "s", "e">>,
       <<"a", "g", "r", "i", "c", "u", "l", "t", "u", "r", "a", "l", " ",
         "e", "x", "t", "e", "n", "s", "i", "o", "n">>,
       <<"o", "r", "g", "a", "n", "i", "c">>,
       <<"c", "o", "n", "s", "e", "r", "v", "a", "t", "i", "o", "n">>,
       <<"c", "o", "o", "p", "e", "r", "a", "t", "i", "v", "e">>,
       <<"s", "u", "s", "t", "a", "i", "n", "a", "b", "l", "e">>,
       <<"s", "u", "b", "s", "i", "s", "t", "e", "n", "c", "e">>,
       <<"c", "o", "m", "m", "e", "r", "c", "i", "a", "l", " ",
         "f", "a", "r", "m", "i", "n", "g">> >>

(***************************************************************************)
(* ARTICLE_PATTERNS.  A pattern is a sequence of atoms; an atom is a       *)
(* character class repeated between lo and hi times (hi = -1: no upper     *)
(* limit, the "+" of the source).                                          *)
(***************************************************************************)
Lit(c) == [cls |-> {c}, lo |-> 1, hi |-> 1]

Lits(s) == [i \in 1..Len(s) |-> Lit(s[i])]

Plus(cls) == [cls |-> cls, lo |-> 1, hi |-> -1]

Times(cls, n) == [cls |-> cls, lo |-> n, hi |-> n]

\* [a-z-]
LowerDash == Lower \cup {"-"}

\* [a-z0-9-]
Slug == Lower \cup Digit \cup {"-"}

SlashCategorySlash == Lits(<<"/", "c", "a", "t", "e", "g", "o", "r", "y", "/">>)

SlashUgandaSlash == Lits(<<"/", "u", "g", "a", "n", "d", "a", "/">>)

ARTICLE_PATTERNS ==
    << \* /category/[a-z-]+/[a-z-]+/[a-z0-9-]+
       SlashCategorySlash \o <<Plus(LowerDash), Lit("/"), Plus(LowerDash),
                               Lit("/"), Plus(Slug)>>,
       \* /uganda/[a-z-]+/[a-z-]+/[a-z0-9-]+-[0-9]+
       SlashUgandaSlash \o <<Plus(LowerDash), Lit("/"), Plus(LowerDash),
                             Lit("/"), Plus(Slug), Lit("-"), Plus(Digit)>>,
       \* /[0-9]{4}/[0-9]{2}/[0-9]{2}/[a-z0-9-]+
       <<Lit("/"), Times(Digit, 4), Lit("/"), Times(Digit, 2), Lit("/"),
         Times(Digit, 2), Lit("/"), Plus(Slug)>>,
       \* /category/[a-z-]+/[a-z0-9-]+
       SlashCategorySlash \o <<Plus(LowerDash), Lit("/"), Plus(Slug)>>,
       \* /[0-9]{4}/[0-9]{2}/[a-z0-9-]+
       <<Lit("/"), Times(Digit, 4), Lit("/"), Times(Digit, 2), Lit("/"),
         Plus(Slug)>> >>

\* The longest run of characters of cls in s from position pos, at most cap
\* characters (cap = -1: no cap).
RunLen(cls, s, pos, cap) ==
    LET most == IF cap = -1 \/ cap > Len(s) - pos + 1
                THEN Len(s) - pos + 1 ELSE cap
        runs == {n \in 0..most : \A j \in 0..(n - 1) : s[pos + j] \in cls}
    IN  CHOOSE n \in runs : \A m \in runs : m <= n

\* Does pat, from its k-th atom on, match s at position pos (re.match with
\* backtracking)?
RECURSIVE MatchAt(_, _, _, _)
MatchAt(pat, k, s, pos) ==
    IF k > Len(pat) THEN TRUE
    ELSE LET a == pat[k]
             run == RunLen(a.cls, s, pos, a.hi)
         IN  \E n \in a.lo..run : MatchAt(pat, k + 1, s, pos + n)

\* re.search(pat, s) is not None
Search(pat, s) == \E pos \in 1..(Len(s) + 1) : MatchAt(pat, 1, s, pos)

\* A variant of ARTICLE_PATTERN_search with the test of line 256 inverted
ARTICLE_PATTERN_inverted(url) ==
    ~\E p \in 1..Len(ARTICLE_PATTERNS) : Search(ARTICLE_PATTERNS[p], url)

\* ARTICLE_PATTERN = re.compile("|".join(ARTICLE_PATTERNS)); .search(url)
ARTICLE_PATTERN_search(url) ==
    \E p \in 1..Len(ARTICLE_PATTERNS) : Search(ARTICLE_PATTERNS[p], url)

(***************************************************************************)
(* JSON values, as json.loads produces them.  A string's v is its          *)
(* characters, a number's v its digits, a list's v its items, a dict's v   *)
(* its key/value pairs in the order of the text.                           *)
(***************************************************************************)
Str(s) == [k |-> "str", v |-> s]

Num(digits) == [k |-> "num", v |-> digits]

Null == [k |-> "null", v |-> <<>>]

Arr(items) == [k |-> "list", v |-> items]

Obj(pairs) == [k |-> "dict", v |-> pairs]

Pair(key, val) == [key |-> key, val |-> val]

\* dict.get(key, default)
dict_get(d, key, default) ==
    LET hits == {i \in 1..Len(d.v) : d.v[i].key = key}
    IN  IF hits = {} THEN default
        ELSE d.v[CHOOSE i \in hits : \A j \in hits : j <= i].val

\* Python truth value of a JSON value (the "not article_url", "if image_url")
Truthy(x) ==
    CASE x.k = "null" -> FALSE
      [] x.k = "num" -> x.v # <<"0">>
      [] OTHER -> Len(x.v) > 0

\* Can the value be a member of a set (list and dict raise TypeError)?
Hashable(x) == x.k \in {"str", "num", "null"}

\* The first key of a dict as written in the text, "" for anything else
FirstKey(x) == IF x.k = "dict" /\ Len(x.v) > 0 THEN x.v[1].key ELSE ""

(***************************************************************************)
(* Oracle replies as token sequences.                                      *)
(*   prose       text holding no backticks, brackets or JSON               *)
(*   ws          whitespace                                                *)
(*   fence_json  ```json followed by a newline                             *)
(*   fence_b64   ```base64 followed by a newline                           *)
(*   fence       ```                                                       *)
(*   lbracket, rbracket, comma                                             *)
(*   value       the text of one JSON object or scalar, v its value        *)
(*   b64_ok      base64 text that decodes; b64_bad: incorrect padding      *)
(***************************************************************************)
Tok(t) == [t |-> t, v |-> Null]

Val(x) == [t |-> "value", v |-> x]

\* The token's text contains ```
HasBackticks(tok) == tok.t \in {"fence", "fence_json", "fence_b64"}

\* The least element of a non-empty set of integers
Least(S) == CHOOSE i \in S : \A j \in S : i <= j

\* A variant of FenceSearch that takes a fence without label for an opening
FenceSearchAnyLabel(content, open) ==
    LET closes(i) == {j \in (i + 1)..Len(content) : HasBackticks(content[j])}
        opens == {i \in 1..Len(content) :
                      content[i].t \in {open, "fence"} /\ closes(i) # {}}
    IN  IF opens = {} THEN [found |-> FALSE, group |-> <<>>]
        ELSE LET i == Least(opens)
                 j == Least(closes(i))
             IN  [found |-> TRUE, group |-> SubSeq(content, i + 1, j - 1)]

\* re.search(r'```<label>\n(.*?)```', content, re.DOTALL): the leftmost opening
\* fence that some later ``` closes, and the text up to the first such ```.
FenceSearch(content, open) ==
    LET closes(i) == {j \in (i + 1)..Len(content) : HasBackticks(content[j])}
        opens == {i \in 1..Len(content) :
                      content[i].t = open /\ closes(i) # {}}
    IN  IF opens = {} THEN [found |-> FALSE, group |-> <<>>]
        ELSE LET i == Least(opens)
                 j == Least(closes(i))
             IN  [found |-> TRUE, group |-> SubSeq(content, i + 1, j - 1)]

\* The position of the first token after i that is not whitespace, 0 if none
NextNonWs(content, i) ==
    LET S == {j \in (i + 1)..Len(content) : content[j].t # "ws"}
    IN  IF S = {} THEN 0 ELSE Least(S)

\* re.search(r'\[\s*{\s*"url"', content): the start of the leftmost match, 0 if
\* there is none
BareUrlSearch(content) ==
    LET S == {i \in 1..Len(content) :
                 /\ content[i].t = "lbracket"
                 /\ LET j == NextNonWs(content, i)
                    IN  /\ j # 0
                        /\ content[j].t = "value"
                        /\ FirstKey(content[j].v) = "url"}
    IN  IF S = {} THEN 0 ELSE Least(S)

\* re.search(r'{\s*"title"', content): the start of the leftmost match, 0 if
\* there is none
BareTitleSearch(content) ==
    LET S == {i \in 1..Len(content) :
                 content[i].t = "value" /\ FirstKey(content[i].v) = "title"}
    IN  IF S = {} THEN 0 ELSE Least(S)

\* json.loads(text): [ok |-> FALSE] stands for JSONDecodeError.  Whitespace
\* between tokens is skipped; the text must be one value, or a bracketed,
\* comma-separated list of values, and nothing else.
json_loads(text) ==
    LET nw == SelectSeq(text, LAMBDA tok : tok.t # "ws")
        n == Len(nw)
        inner == SubSeq(nw, 2, n - 1)
        m == Len(inner)
        listed == /\ n >= 2
                  /\ nw[1].t = "lbracket"
                  /\ nw[n].t = "rbracket"
                  /\ \/ m = 0
                     \/ /\ m % 2 = 1
                        /\ \A i \in 1..m :
                              inner[i].t = IF i % 2 = 1 THEN "value" ELSE "comma"
    IN  IF n = 1 /\ nw[1].t = "value" THEN [ok |-> TRUE, val |-> nw[1].v]
        ELSE IF listed
             THEN [ok |-> TRUE,
                   val |-> Arr([i \in 1..((m + 1) \div 2) |-> inner[2 * i - 1].v])]
             ELSE [ok |-> FALSE, val |-> Null]

\* A variant of ExtractLinksJson that looks for the bare list first
ExtractLinksJsonBareFirst(content) ==
    LET match == FenceSearch(content, "fence_json")
        bare == BareUrlSearch(content)
    IN  IF bare # 0
        THEN [found |-> TRUE, via |-> "bare",
              text |-> SubSeq(content, bare, Len(content))]
        ELSE IF match.found
             THEN [found |-> TRUE, via |-> "fence", text |-> match.group]
             ELSE [found |-> FALSE, via |-> "none", text |-> <<>>]

\* process_site, lines 225-235: where the JSON text of a discovery reply is
\* taken from
ExtractLinksJson(content) ==
    LET match == FenceSearch(content, "fence_json")
        bare == BareUrlSearch(content)
    IN  IF match.found THEN [found |-> TRUE, via |-> "fence", text |-> match.group]
        ELSE IF bare # 0
             THEN [found |-> TRUE, via |-> "bare",
                   text |-> SubSeq(content, bare, Len(content))]
             ELSE [found |-> FALSE, via |-> "none", text |-> <<>>]

\* process_article, lines 303-313
ExtractArticleJson(content) ==
    LET match == FenceSearch(content, "fence_json")
        bare == BareTitleSearch(content)
    IN  IF match.found THEN [found |-> TRUE, via |-> "fence", text |-> match.group]
        ELSE IF bare # 0
             THEN [found |-> TRUE, via |-> "bare",
                   text |-> SubSeq(content, bare, Len(content))]
             ELSE [found |-> FALSE, via |-> "none", text |-> <<>>]

\* A variant of is_agriculture_related whose last line returns True
AlwaysRelated(title, content) == TRUE

\* is_agriculture_related(title, content), both str
is_agriculture_related(title, content) ==
    LET text == LowerStr(title.v \o <<" ">> \o content.v)
    IN  \E i \in 1..Len(AGRICULTURE_KEYWORDS) :
            Contains(text, LowerStr(AGRICULTURE_KEYWORDS[i]))

\* download_image, lines 384-397, once the reply is there.  "no_block": no
\* base64 block, returns False; "decode_error": output_path was opened for
\* writing, then b64decode raised, returns False; "written": returns True.
DownloadOutcome(content) ==
    LET match == FenceSearch(content, "fence_b64")
    IN  IF ~match.found THEN "no_block"
        ELSE IF Len(match.group) = 1 /\ match.group[1].t = "b64_ok"
             THEN "written" ELSE "decode_error"

\* A variant of SiteUrls without the loop over the alternative URLs
PrimaryUrlOnly(site) == <<site.url>>

\* The URLs process_site is called with for one site, in call order
\* (scrape_all_sites, lines 188-192)
SiteUrls(site) == <<site.url>> \o site.alternative_urls

(***************************************************************************)
(* The strings the oracle's replies are built from.                        *)
(***************************************************************************)
\* "https://site/agriculture/x-1"
URL_EXAMPLE ==
    <<"h", "t", "t", "p", "s", ":", "/", "/", "s", "i", "t", "e", "/", "a",
      "g", "r", "i", "c", "u", "l", "t", "u", "r", "e", "/", "x", "-", "1">>

\* "https://nbs.ug/2024/05/maize-boom"
URL_DATED ==
    <<"h", "t", "t", "p", "s", ":", "/", "/", "n", "b", "s", ".", "u", "g",
      "/", "2", "0", "2", "4", "/", "0", "5", "/", "m", "a", "i", "z", "e",
      "-", "b", "o", "o", "m">>

\* "https://ubc.go.ug/category/agriculture/goats"
URL_CATEGORY ==
    <<"h", "t", "t", "p", "s", ":", "/", "/", "u", "b", "c", ".", "g", "o",
      ".", "u", "g", "/", "c", "a", "t", "e", "g", "o", "r", "y", "/", "a",
      "g", "r", "i", "c", "u", "l", "t", "u", "r", "e", "/", "g", "o", "a",
      "t", "s">>

\* "https://nbs.ug/m.jpg"
IMAGE_URL ==
    <<"h", "t", "t", "p", "s", ":", "/", "/", "n", "b", "s", ".", "u", "g",
      "/", "m", ".", "j", "p", "g">>

\* "Rains boost maize yield"
TITLE_RAINS ==
    <<"R", "a", "i", "n", "s", " ", "b", "o", "o", "s", "t", " ", "m", "a",
      "i", "z", "e", " ", "y", "i", "e", "l", "d">>

\* "Kampala derby"
TITLE_DERBY ==
    <<"K", "a", "m", "p", "a", "l", "a", " ", "d", "e", "r", "b", "y">>

\* "Report on food"
TITLE_FOOD ==
    <<"R", "e", "p", "o", "r", "t", " ", "o", "n", " ", "f", "o", "o", "d">>

\* "Farmers expect a good harvest"
BODY_HARVEST ==
    <<"F", "a", "r", "m", "e", "r", "s", " ", "e", "x", "p", "e", "c", "t",
      " ", "a", " ", "g", "o", "o", "d", " ", "h", "a", "r", "v", "e", "s",
      "t">>

\* "Goals came late"
BODY_GOALS ==
    <<"G", "o", "a", "l", "s", " ", "c", "a", "m", "e", " ", "l", "a", "t",
      "e">>

\* "security tightened"
BODY_SECURITY ==
    <<"s", "e", "c", "u", "r", "i", "t", "y", " ", "t", "i", "g", "h", "t",
      "e", "n", "e", "d">>

\* "2024-05-02"
DATE_MAY ==
    <<"2", "0", "2", "4", "-", "0", "5", "-", "0", "2">>

\* One entry of a discovery list: {"url": ..., "title": ...}
Link(url) == Obj(<<Pair("url", Str(url)), Pair("title", Str(TITLE_RAINS))>>)

\* An extraction payload: {"title": ..., "content": ..., "image_url": ...}
Article(title, content, image_url) ==
    Obj(<<Pair("title", Str(title)), Pair("content", Str(content)),
          Pair("image_url", Str(image_url))>>)

\* The same with a publication date
DatedArticle(title, content, image_url) ==
    Obj(<<Pair("title", Str(title)), Pair("content", Str(content)),
          Pair("date", Str(DATE_MAY)), Pair("image_url", Str(image_url))>>)

Raises == [raises |-> TRUE, content |-> <<>>]

Says(content) == [raises |-> FALSE, content |-> content]

\* What agent.ainvoke may answer to the discovery prompt of process_site
DiscoveryReplies ==
    << \* 1: the invocation raises
       Raises,
       \* 2: prose only
       Says(<<Tok("prose")>>),
       \* 3: a fenced list of one link inside prose
       Says(<<Tok("prose"), Tok("fence_json"), Tok("lbracket"),
              Val(Link(URL_DATED)), Tok("rbracket"), Tok("fence"), Tok("prose")>>),
       \* 4: a fenced list holding the one entry https://site/agriculture/x-1
       Says(<<Tok("fence_json"), Tok("lbracket"), Val(Link(URL_EXAMPLE)),
              Tok("rbracket"), Tok("fence")>>),
       \* 5: a fenced list of two links
       Says(<<Tok("fence_json"), Tok("lbracket"), Val(Link(URL_CATEGORY)),
              Tok("comma"), Tok("ws"), Val(Link(URL_DATED)), Tok("rbracket"),
              Tok("fence")>>),
       \* 6: no fence, a bare list up to the end of the text
       Says(<<Tok("prose"), Tok("lbracket"), Val(Link(URL_CATEGORY)),
              Tok("rbracket"), Tok("ws")>>),
       \* 7: no fence, a bare list followed by prose
       Says(<<Tok("prose"), Tok("lbracket"), Val(Link(URL_CATEGORY)),
              Tok("rbracket"), Tok("prose")>>),
       \* 8: a bare list in the prose before a fenced list
       Says(<<Tok("prose"), Tok("lbracket"), Tok("ws"), Val(Link(URL_CATEGORY)),
              Tok("rbracket"), Tok("prose"), Tok("fence_json"), Tok("ws"),
              Tok("lbracket"), Val(Link(URL_DATED)), Tok("rbracket"), Tok("ws"),
              Tok("fence"), Tok("prose")>>),
       \* 9: a fenced object, not a list
       Says(<<Tok("fence_json"), Val(Link(URL_DATED)), Tok("fence")>>),
       \* 10: a fenced list whose entry is a number
       Says(<<Tok("fence_json"), Tok("lbracket"), Val(Num(<<"7">>)),
              Tok("rbracket"), Tok("fence")>>),
       \* 11: a fenced list whose entry has a number as url
       Says(<<Tok("fence_json"), Tok("lbracket"),
              Val(Obj(<<Pair("url", Num(<<"7">>))>>)), Tok("rbracket"),
              Tok("fence")>>),
       \* 12: entries without url and with an empty url before a link
       Says(<<Tok("fence_json"), Tok("lbracket"),
              Val(Obj(<<Pair("title", Str(TITLE_RAINS))>>)), Tok("comma"),
              Val(Link(<<>>)), Tok("comma"), Val(Link(URL_DATED)),
              Tok("rbracket"), Tok("fence")>>),
       \* 13: a list in a fence without the json label, title before url
       Says(<<Tok("fence"), Tok("lbracket"),
              Val(Obj(<<Pair("title", Str(TITLE_RAINS)),
                        Pair("url", Str(URL_DATED))>>)),
              Tok("rbracket"), Tok("fence")>>),
       \* 14: a fenced block of prose before a bare list
       Says(<<Tok("fence_json"), Tok("prose"), Tok("fence"), Tok("lbracket"),
              Val(Link(URL_CATEGORY)), Tok("rbracket")>>),
       \* 15: a fenced list whose entry has a list as url
       Says(<<Tok("fence_json"), Tok("lbracket"),
              Val(Obj(<<Pair("url", Arr(<<Str(URL_DATED)>>))>>)),
              Tok("rbracket"), Tok("fence")>>),
       \* 16: the same link twice in one list
       Says(<<Tok("fence_json"), Tok("lbracket"), Val(Link(URL_DATED)),
              Tok("comma"), Val(Link(URL_DATED)), Tok("rbracket"),
              Tok("fence")>>),
       \* 17: an empty fenced list
       Says(<<Tok("fence_json"), Tok("lbracket"), Tok("rbracket"),
              Tok("fence")>>) >>

\* The discovery replies that do not count against MaxListings
QuietReplies == {1, 2}

\* What agent.ainvoke may answer to the extraction prompt of process_article
ArticleReplies ==
    << \* 1: the invocation raises
       Raises,
       \* 2: prose only
       Says(<<Tok("prose")>>),
       \* 3: fenced, keywords in title and body, a date, no image
       Says(<<Tok("prose"), Tok("fence_json"),
              Val(DatedArticle(TITLE_RAINS, BODY_HARVEST, <<>>)), Tok("fence")>>),
       \* 4: fenced, keyword in the title only, an image
       Says(<<Tok("fence_json"), Val(Article(TITLE_RAINS, BODY_GOALS, IMAGE_URL)),
              Tok("fence")>>),
       \* 5: fenced, no keyword
       Says(<<Tok("fence_json"), Val(Article(TITLE_DERBY, BODY_GOALS, IMAGE_URL)),
              Tok("fence")>>),
       \* 6: fenced, "food security" across title and body
       Says(<<Tok("fence_json"), Val(Article(TITLE_FOOD, BODY_SECURITY, <<>>)),
              Tok("fence")>>),
       \* 7: no fence, a bare object up to the end of the text
       Says(<<Tok("prose"), Val(DatedArticle(TITLE_RAINS, BODY_HARVEST, <<>>)),
              Tok("ws")>>),
       \* 8: no fence, a bare object followed by prose
       Says(<<Tok("prose"), Val(DatedArticle(TITLE_RAINS, BODY_HARVEST, <<>>)),
              Tok("prose")>>),
       \* 9: a bare object in the prose before a fenced object
       Says(<<Val(Article(TITLE_DERBY, BODY_GOALS, <<>>)), Tok("prose"),
              Tok("fence_json"),
              Val(DatedArticle(TITLE_RAINS, BODY_HARVEST, <<>>)), Tok("fence")>>),
       \* 10: a fenced list
       Says(<<Tok("fence_json"), Tok("lbracket"),
              Val(Article(TITLE_RAINS, BODY_HARVEST, <<>>)), Tok("rbracket"),
              Tok("fence")>>),
       \* 11: fenced, the title is null
       Says(<<Tok("fence_json"),
              Val(Obj(<<Pair("title", Null), Pair("content", Str(BODY_HARVEST))>>)),
              Tok("fence")>>),
       \* 12: an object in a fence without the json label, content before title
       Says(<<Tok("fence"),
              Val(Obj(<<Pair("content", Str(BODY_HARVEST)),
                        Pair("title", Str(TITLE_RAINS))>>)),
              Tok("fence")>>),
       \* 13: a fenced block of prose before a bare object
       Says(<<Tok("fence_json"), Tok("prose"), Tok("fence"),
              Val(Article(TITLE_RAINS, BODY_HARVEST, <<>>))>>) >>

\* What agent.ainvoke may answer to the download prompt of download_image
DownloadReplies ==
    << \* 1: the invocation raises
       Raises,
       \* 2: no base64 block
       Says(<<Tok("prose")>>),
       \* 3: a base64 block that decodes
       Says(<<Tok("prose"), Tok("fence_b64"), Tok("b64_ok"), Tok("fence")>>),
       \* 4: a base64 block with incorrect padding
       Says(<<Tok("fence_b64"), Tok("b64_bad"), Tok("fence")>>) >>

(***************************************************************************)
(* The state of one run of UgandaAgricultureScraper.scrape_all_sites.      *)
(***************************************************************************)
VARIABLES
    pc,               \* where the run is: "site_loop", "discover", "links",
                      \* "article", "download", "sleep", "site_return", "done"
    site_idx,         \* the site of UGANDA_NEWS_SITES being processed, 0 before
    url_idx,          \* which of SiteUrls(site) process_site was called with
    stats,            \* self.stats
    processed_urls,   \* self.processed_urls
    uuid_count,       \* how many uuid.uuid4() values were drawn
    files,            \* the record files of OUTPUT_DIR
    image_files,      \* the files of IMAGES_DIR
    links_content,    \* process_site: links_content
    links_via,        \* process_site: which search gave links_json
    links_outcome,    \* process_site: how the call went so far
    article_links,    \* process_site: article_links
    link_idx,         \* process_site: position of the for loop in article_links
    article_url,      \* process_article: article_url
    article_content,  \* process_article: article_content
    article_via,      \* process_article: which search gave article_json
    article_outcome,  \* process_article: how the call went so far
    article_data,     \* process_article: article_data
    image_path,       \* process_article: image_path
    download_outcome, \* download_image: what became of the image
    discovery_calls,  \* the URLs process_site asked the oracle about, in order
    extraction_calls, \* the URLs process_article was called with, in order
    listings          \* discovery replies so far that count against MaxListings

vars ==
    <<pc, site_idx, url_idx, stats, processed_urls, uuid_count, files,
      image_files, links_content, links_via, links_outcome, article_links,
      link_idx, article_url, article_content, article_via, article_outcome,
      article_data, image_path, download_outcome, discovery_calls,
      extraction_calls, listings>>

siteVars == <<links_content, links_via, links_outcome, article_links, link_idx>>

articleVars ==
    <<article_url, article_content, article_via, article_outcome, article_data,
      image_path, download_outcome>>

\* image_path = ""
EmptyPath == [dir |-> "", name |-> 0]

\* image_path = f"images/{image_filename}", image_filename = f"{uuid}.jpg"
ImagePath(uuid) == [dir |-> "images", name |-> uuid]

\* datetime.now().isoformat(), the clock left abstract
NowIso == Str(<<"n", "o", "w">>)

\* News(...).to_dict() as save_news_to_json writes it
News(id, data, site_name, url, image_url, path) ==
    [id |-> id,
     title |-> dict_get(data, "title", Str(<<>>)),
     description |-> dict_get(data, "content", Str(<<>>)),
     category |-> "Agriculture",
     source |-> site_name,
     sourceUrl |-> url,
     imageUrl |-> image_url,
     imagePath |-> path,
     postedAt |-> dict_get(data, "date", NowIso)]

\* process_site, lines 221-244: from the oracle's reply to the list of links
DiscoveryResult(reply) ==
    IF reply.raises
    THEN [outcome |-> "invoke_error", via |-> "none", links |-> <<>>]
    ELSE LET ex == ExtractLinksJson(reply.content)
             parsed == json_loads(ex.text)
         IN  IF ~ex.found
             THEN [outcome |-> "not_found", via |-> "none", links |-> <<>>]
             ELSE IF ~parsed.ok
             THEN [outcome |-> "parse_error", via |-> ex.via, links |-> <<>>]
             ELSE IF parsed.val.k # "list"
             THEN [outcome |-> "not_list", via |-> ex.via, links |-> <<>>]
             ELSE [outcome |-> "listed", via |-> ex.via, links |-> parsed.val.v]

\* A variant of ArticlesFoundAfter that counts the reply, not its links
ArticlesFoundPlusOne(count, links) == count + 1

\* line 244: self.stats["articles_found"] += len(article_links)
ArticlesFoundAfter(count, links) == count + Len(links)

\* A variant of AlreadyProcessed with the membership test dropped
NeverProcessed(url, processed) == FALSE

\* A variant of AlreadyProcessed with the membership test inverted
NotYetProcessed(url, processed) == url \notin processed

\* line 249, second operand: article_url in self.processed_urls
AlreadyProcessed(url, processed) == url \in processed

\* A variant of LinkVerdict that adds the URL to the set after the pattern
\* test instead of before it (lines 253 and 256 swapped)
LinkVerdictAddAfterFilter(article, processed) ==
    IF article.k # "dict"
    THEN [step |-> "error", processed |-> processed, url |-> Null]
    ELSE LET url == dict_get(article, "url", Null)
         IN  IF ~Truthy(url)
             THEN [step |-> "skip", processed |-> processed, url |-> url]
             ELSE IF ~Hashable(url)
             THEN [step |-> "error", processed |-> processed, url |-> url]
             ELSE IF url \in processed
             THEN [step |-> "skip", processed |-> processed, url |-> url]
             ELSE IF url.k # "str"
             THEN [step |-> "error", processed |-> processed, url |-> url]
             ELSE IF ~ARTICLE_PATTERN_search(url.v)
             THEN [step |-> "filtered", processed |-> processed, url |-> url]
             ELSE [step |-> "process", processed |-> processed \cup {url},
                   url |-> url]

\* process_site, lines 248-260: one pass of the for loop over one entry.
\* step: "error" (an exception leaves the loop), "skip" (continue at 250),
\* "filtered" (continue at 257), "process" (process_article is called).
LinkVerdict(article, processed) ==
    IF article.k # "dict"
    THEN [step |-> "error", processed |-> processed, url |-> Null]
    ELSE LET url == dict_get(article, "url", Null)
         IN  IF ~Truthy(url)
             THEN [step |-> "skip", processed |-> processed, url |-> url]
             ELSE IF ~Hashable(url)
             THEN [step |-> "error", processed |-> processed, url |-> url]
             ELSE IF AlreadyProcessed(url, processed)
             THEN [step |-> "skip", processed |-> processed, url |-> url]
             ELSE IF url.k # "str"
             THEN [step |-> "error", processed |-> processed \cup {url},
                   url |-> url]
             ELSE IF ~ARTICLE_PATTERN_search(url.v)
             THEN [step |-> "filtered", processed |-> processed \cup {url},
                   url |-> url]
             ELSE [step |-> "process", processed |-> processed \cup {url},
                   url |-> url]

\* process_article, lines 299-326: from the oracle's reply to the decision
ArticleResult(reply) ==
    IF reply.raises
    THEN [outcome |-> "invoke_error", via |-> "none", data |-> Null]
    ELSE LET ex == ExtractArticleJson(reply.content)
             parsed == json_loads(ex.text)
             data == parsed.val
             title == dict_get(data, "title", Str(<<>>))
             content == dict_get(data, "content", Str(<<>>))
         IN  IF ~ex.found
             THEN [outcome |-> "not_found", via |-> "none", data |-> Null]
             ELSE IF ~parsed.ok
             THEN [outcome |-> "parse_error", via |-> ex.via, data |-> Null]
             ELSE IF data.k # "dict"
             THEN [outcome |-> "attr_error", via |-> ex.via, data |-> data]
             ELSE IF title.k # "str" \/ content.k # "str"
             THEN [outcome |-> "type_error", via |-> ex.via, data |-> data]
             ELSE IF ~is_agriculture_related(title, content)
             THEN [outcome |-> "skipped", via |-> ex.via, data |-> data]
             ELSE [outcome |-> "accepted", via |-> ex.via, data |-> data]

\* download_image, lines 379-401
DownloadResult(reply) ==
    IF reply.raises THEN "invoke_error" ELSE DownloadOutcome(reply.content)

\* for site in UGANDA_NEWS_SITES (line 183), cut to the first MaxSites
Sites == SubSeq(UGANDA_NEWS_SITES, 1, MaxSites)

Site == Sites[site_idx]

Init ==
    /\ pc = "site_loop"
    /\ site_idx = 0
    /\ url_idx = 0
    /\ stats = [articles_found |-> 0, agriculture_articles |-> 0,
                images_downloaded |-> 0, sites_processed |-> 0]
    /\ processed_urls = {}
    /\ uuid_count = 0
    /\ files = {}
    /\ image_files = {}
    /\ links_content = <<>>
    /\ links_via = "none"
    /\ links_outcome = "none"
    /\ article_links = <<>>
    /\ link_idx = 0
    /\ article_url = <<>>
    /\ article_content = <<>>
    /\ article_via = "none"
    /\ article_outcome = "none"
    /\ article_data = Null
    /\ image_path = EmptyPath
    /\ download_outcome = "none"
    /\ discovery_calls = <<>>
    /\ extraction_calls = <<>>
    /\ listings = 0

\* scrape_all_sites, lines 183-188: the next site of the list
NextSite ==
    /\ pc = "site_loop"
    /\ site_idx < Len(Sites)
    /\ site_idx' = site_idx + 1
    /\ url_idx' = 1
    /\ stats' = [stats EXCEPT !.sites_processed = @ + 1]
    /\ pc' = "discover"
    /\ UNCHANGED <<processed_urls, uuid_count, files, image_files, siteVars,
                   articleVars, discovery_calls, extraction_calls, listings>>

\* scrape_all_sites, lines 194-195: the list is exhausted
Complete ==
    /\ pc = "site_loop"
    /\ site_idx = Len(Sites)
    /\ pc' = "done"
    /\ UNCHANGED <<site_idx, url_idx, stats, processed_urls, uuid_count, files,
                   image_files, siteVars, articleVars, discovery_calls,
                   extraction_calls, listings>>

\* process_site, lines 220-244 and 265-270: the discovery call and its parsing
ProcessSiteCall(r) ==
    /\ pc = "discover"
    /\ r \in QuietReplies \/ listings < MaxListings
    /\ listings' = IF r \in QuietReplies THEN listings ELSE listings + 1
    /\ discovery_calls' = Append(discovery_calls, SiteUrls(Site)[url_idx])
    /\ LET reply == DiscoveryReplies[r]
           res == DiscoveryResult(reply)
       IN  /\ links_content' = reply.content
           /\ links_via' = res.via
           /\ links_outcome' = res.outcome
           /\ article_links' = res.links
           /\ IF res.outcome = "listed"
              THEN /\ stats' = [stats EXCEPT !.articles_found =
                                    ArticlesFoundAfter(@, res.links)]
                   /\ link_idx' = 1
                   /\ pc' = "links"
              ELSE /\ stats' = stats
                   /\ link_idx' = 0
                   /\ pc' = "site_return"
    /\ UNCHANGED <<site_idx, url_idx, processed_urls, uuid_count, files,
                   image_files, articleVars, extraction_calls>>

\* process_site, lines 247-260 and 269-270: the for loop takes the next entry
LinkStep ==
    /\ pc = "links"
    /\ link_idx <= Len(article_links)
    /\ \E v \in {LinkVerdict(article_links[link_idx], processed_urls)} :
           /\ processed_urls' = v.processed
           /\ CASE v.step = "process" ->
                     /\ article_url' = v.url.v
                     /\ extraction_calls' = Append(extraction_calls, v.url.v)
                     /\ pc' = "article"
                     /\ UNCHANGED <<link_idx, links_outcome>>
                [] v.step = "error" ->
                     /\ links_outcome' = "loop_error"
                     /\ pc' = "site_return"
                     /\ UNCHANGED <<link_idx, article_url, extraction_calls>>
                [] OTHER ->
                     /\ link_idx' = link_idx + 1
                     /\ UNCHANGED <<pc, links_outcome, article_url,
                                    extraction_calls>>
    /\ UNCHANGED <<site_idx, url_idx, stats, uuid_count, files, image_files,
                   links_content, links_via, article_links, article_content,
                   article_via, article_outcome, article_data, image_path,
                   download_outcome, discovery_calls, listings>>

\* process_article, lines 298-364 up to the image download: the extraction
\* call, the keyword filter and, without an image, the record.  written says
\* whether save_news_to_json succeeds or raises.
ProcessArticleCall(r, written) ==
    /\ pc = "article"
    /\ LET reply == ArticleReplies[r]
           res == ArticleResult(reply)
           image_url == dict_get(res.data, "image_url", Str(<<>>))
           uuid == uuid_count + 1
       IN  /\ article_content' = reply.content
           /\ article_via' = res.via
           /\ article_data' = res.data
           /\ IF res.outcome # "accepted"
              THEN /\ article_outcome' = res.outcome
                   /\ pc' = "sleep"
                   /\ UNCHANGED <<stats, uuid_count, files, image_path>>
              ELSE /\ stats' = [stats EXCEPT !.agriculture_articles = @ + 1]
                   /\ uuid_count' = uuid
                   /\ IF Truthy(image_url)
                      THEN /\ image_path' = ImagePath(uuid)
                           /\ article_outcome' = "accepted"
                           /\ pc' = "download"
                           /\ files' = files
                      ELSE /\ image_path' = EmptyPath
                           /\ article_outcome' =
                                 IF written THEN "saved" ELSE "save_error"
                           /\ files' =
                                 IF written
                                 THEN files \cup
                                      {News(uuid, res.data, Site.name, article_url,
                                            image_url, EmptyPath)}
                                 ELSE files
                           /\ pc' = "sleep"
    /\ UNCHANGED <<site_idx, url_idx, processed_urls, image_files, siteVars,
                   article_url, download_outcome, discovery_calls,
                   extraction_calls, listings>>

\* process_article, lines 341-357 with download_image, lines 379-401: the
\* download call, the counter and the record
DownloadCall(r, written) ==
    /\ pc = "download"
    /\ LET res == DownloadResult(DownloadReplies[r])
           image_url == dict_get(article_data, "image_url", Str(<<>>))
           uuid == uuid_count + 1
       IN  /\ download_outcome' = res
           /\ image_files' =
                 CASE res = "written" ->
                        image_files \cup {[path |-> image_path, data |-> "image"]}
                   [] res = "decode_error" ->
                        image_files \cup {[path |-> image_path, data |-> "empty"]}
                   [] OTHER -> image_files
           /\ stats' = [stats EXCEPT !.images_downloaded = @ + 1]
           /\ uuid_count' = uuid
           /\ article_outcome' = IF written THEN "saved" ELSE "save_error"
           /\ files' =
                 IF written
                 THEN files \cup
                      {News(uuid, article_data, Site.name, article_url,
                            image_url, image_path)}
                 ELSE files
    /\ pc' = "sleep"
    /\ UNCHANGED <<site_idx, url_idx, processed_urls, siteVars, article_url,
                   article_content, article_via, article_data, image_path,
                   discovery_calls, extraction_calls, listings>>

\* process_site, line 263: process_article has returned, the pause, and on to
\* the next entry
Sleep ==
    /\ pc = "sleep"
    /\ link_idx' = link_idx + 1
    /\ article_url' = <<>>
    /\ article_content' = <<>>
    /\ article_via' = "none"
    /\ article_outcome' = "none"
    /\ article_data' = Null
    /\ image_path' = EmptyPath
    /\ download_outcome' = "none"
    /\ pc' = "links"
    /\ UNCHANGED <<site_idx, url_idx, stats, processed_urls, uuid_count, files,
                   image_files, links_content, links_via, links_outcome,
                   article_links, discovery_calls, extraction_calls, listings>>

\* process_site, line 247, and scrape_all_sites, lines 188-192: process_site
\* returns, after an early return or an exception or once its for loop is
\* exhausted; the next alternative URL of the site follows, or the loop over
\* the sites
SiteReturn ==
    /\ \/ pc = "site_return"
       \/ pc = "links" /\ link_idx > Len(article_links)
    /\ links_content' = <<>>
    /\ links_via' = "none"
    /\ links_outcome' = "none"
    /\ article_links' = <<>>
    /\ link_idx' = 0
    /\ IF url_idx < Len(SiteUrls(Site))
       THEN url_idx' = url_idx + 1 /\ pc' = "discover"
       ELSE url_idx' = url_idx /\ pc' = "site_loop"
    /\ UNCHANGED <<site_idx, stats, processed_urls, uuid_count, files,
                   image_files, articleVars, discovery_calls, extraction_calls,
                   listings>>

Next ==
    \/ NextSite
    \/ Complete
    \/ \E r \in 1..Len(DiscoveryReplies) : ProcessSiteCall(r)
    \/ LinkStep
    \/ \E r \in 1..Len(ArticleReplies), written \in BOOLEAN :
           ProcessArticleCall(r, written)
    \/ \E r \in 1..Len(DownloadReplies), written \in BOOLEAN :
           DownloadCall(r, written)
    \/ Sleep
    \/ SiteReturn

Spec == Init /\ [][Next]_vars

\* The run is one sequential control flow and every await returns or raises,
\* so a step that can be taken is taken.
FairSpec == Spec /\ WF_vars(Next)

(***************************************************************************)
(* Vocabulary of the properties.  These definitions restate what a reply   *)
(* contains and what the configuration is without using the operators of   *)
(* the model that the properties are about.                                *)
(***************************************************************************)
Range(seq) == {seq[i] : i \in 1..Len(seq)}

Count(x, seq) == Cardinality({i \in 1..Len(seq) : seq[i] = x})

\* The article URLs the replies are built from
UrlUniverse == {URL_EXAMPLE, URL_DATED, URL_CATEGORY}

\* re.search(pattern, url) fails for every pattern of ARTICLE_PATTERNS
FailsEveryPattern ==
    {u \in UrlUniverse :
        \A p \in 1..Len(ARTICLE_PATTERNS) : ~Search(ARTICLE_PATTERNS[p], u)}

\* Every site URL of the configuration in the order scrape_all_sites visits them
RECURSIVE UrlsFrom(_)
UrlsFrom(i) ==
    IF i > Len(Sites) THEN <<>>
    ELSE <<Sites[i].url>> \o Sites[i].alternative_urls \o UrlsFrom(i + 1)

ConfiguredUrls == UrlsFrom(1)

IsPrefix(a, b) == Len(a) <= Len(b) /\ SubSeq(b, 1, Len(a)) = a

\* The text holds a block opened by ```json and closed by a later ```
HasFencedJson(c) ==
    \E i, j \in 1..Len(c) :
        i < j /\ c[i].t = "fence_json" /\ HasBackticks(c[j])

\* The tokens of the first such block
FirstFencedJson(c) ==
    LET i == CHOOSE a \in 1..Len(c) :
                 /\ c[a].t = "fence_json"
                 /\ \E b \in (a + 1)..Len(c) : HasBackticks(c[b])
                 /\ \A a2 \in 1..(a - 1) : c[a2].t # "fence_json"
        j == CHOOSE b \in (i + 1)..Len(c) :
                 /\ HasBackticks(c[b])
                 /\ \A b2 \in (i + 1)..(b - 1) : ~HasBackticks(c[b2])
    IN  SubSeq(c, i + 1, j - 1)

\* The text holds the bare opening of a list of links, [{"url"
HasBareUrlToken(c) ==
    \E i, j \in 1..Len(c) :
        /\ i < j
        /\ c[i].t = "lbracket"
        /\ \A m \in (i + 1)..(j - 1) : c[m].t = "ws"
        /\ c[j].t = "value"
        /\ c[j].v.k = "dict"
        /\ Len(c[j].v.v) > 0
        /\ c[j].v.v[1].key = "url"

\* The text holds the bare opening of an article object, {"title"
HasBareTitleToken(c) ==
    \E i \in 1..Len(c) :
        /\ c[i].t = "value"
        /\ c[i].v.k = "dict"
        /\ Len(c[i].v.v) > 0
        /\ c[i].v.v[1].key = "title"

\* Equality of JSON values, kind first
RECURSIVE JsonEq(_, _)
JsonEq(a, b) ==
    /\ a.k = b.k
    /\ Len(a.v) = Len(b.v)
    /\ CASE a.k = "list" -> \A i \in 1..Len(a.v) : JsonEq(a.v[i], b.v[i])
         [] a.k = "dict" ->
               \A i \in 1..Len(a.v) :
                   a.v[i].key = b.v[i].key /\ JsonEq(a.v[i].val, b.v[i].val)
         [] OTHER -> a.v = b.v

\* The value of a string field of a parsed object, "" when it is missing
Field(d, key) ==
    LET hits == {i \in 1..Len(d.v) : d.v[i].key = key}
    IN  IF hits = {} THEN Str(<<>>) ELSE d.v[CHOOSE i \in hits : TRUE].val

\* Some keyword of AGRICULTURE_KEYWORDS occurs in the lower-cased text
HasKeyword(text) ==
    LET lowered == LowerStr(text)
    IN  \E i \in 1..Len(AGRICULTURE_KEYWORDS) :
            Contains(lowered, AGRICULTURE_KEYWORDS[i])

\* The titles and bodies the replies are built from, "" for a missing field
TitleUniverse == {TITLE_RAINS, TITLE_DERBY, TITLE_FOOD, <<>>}

BodyUniverse == {BODY_HARVEST, BODY_GOALS, BODY_SECURITY, <<>>}

\* The bodies that hold no keyword
BodiesWithoutKeyword == {b \in BodyUniverse : ~HasKeyword(b)}

\* The title/body pairs whose text title + " " + body holds no keyword
TextsWithoutKeyword ==
    {tb \in TitleUniverse \X BodyUniverse :
        ~HasKeyword(tb[1] \o <<" ">> \o tb[2])}

\* The entry the for loop of process_site is at
CurrentLink == article_links[link_idx]

\* The loop is at an entry that is an object with a non-empty string as url
AtStringUrl ==
    /\ pc = "links"
    /\ link_idx <= Len(article_links)
    /\ CurrentLink.k = "dict"
    /\ Field(CurrentLink, "url").k = "str"
    /\ Len(Field(CurrentLink, "url").v) > 0

\* The discovery reply was one fenced list of one entry, and the loop is at it
AtSingleFencedEntry ==
    /\ AtStringUrl
    /\ link_idx = 1
    /\ Len(article_links) = 1
    /\ links_via = "fence"

(***************************************************************************)
(* C1.  Within one run process_article is never called twice for the same  *)
(* article URL, however often discovery replies list it again.             *)
(***************************************************************************)
C1_ExtractedAtMostOnce ==
    \A i, j \in 1..Len(extraction_calls) :
        i # j => extraction_calls[i] # extraction_calls[j]

\* URL_DATED was extracted on an earlier page; a later page listed URL_CATEGORY
\* and then URL_DATED again, and the loop has passed both.
C1_Witness ==
    /\ pc = "links"
    /\ Len(article_links) = 2
    /\ link_idx = 3
    /\ Field(article_links[1], "url").v = URL_CATEGORY
    /\ Field(article_links[2], "url").v = URL_DATED
    /\ extraction_calls = <<URL_DATED, URL_CATEGORY>>

(***************************************************************************)
(* C2.  A URL that matches none of ARTICLE_PATTERNS is never passed to     *)
(* process_article.                                                        *)
(***************************************************************************)
C2_OnlyShapedUrlsExtracted ==
    \A i \in 1..Len(extraction_calls) :
        /\ extraction_calls[i] \in UrlUniverse
        /\ extraction_calls[i] \notin FailsEveryPattern

\* https://site/agriculture/x-1 fails every pattern, was listed and the loop
\* has passed it.
C2_Witness ==
    /\ URL_EXAMPLE \in FailsEveryPattern
    /\ pc = "links"
    /\ link_idx = 2
    /\ Field(article_links[1], "url").v = URL_EXAMPLE
    /\ Str(URL_EXAMPLE) \in processed_urls

(***************************************************************************)
(* C3.  When an accepted article has an image URL and the image download   *)
(* fails, the record is persisted with an empty image path and             *)
(* images_downloaded is not incremented.                                   *)
(***************************************************************************)
C3_FailedDownloadLeavesNoImage ==
    [][(pc = "download" /\ pc' = "sleep" /\ download_outcome' # "written")
         => /\ stats'.images_downloaded = stats.images_downloaded
            /\ \A n \in files' \ files : n.imagePath = EmptyPath]_vars

(***************************************************************************)
(* C4.  As claimed: when the content field of the extraction reply holds   *)
(* no keyword, no record is persisted and agriculture_articles is          *)
(* unchanged.                                                              *)
(***************************************************************************)
C4_BodyWithoutKeywordRejected ==
    [][(/\ pc = "article"
        /\ article_data'.k = "dict"
        /\ Field(article_data', "title").k = "str"
        /\ Field(article_data', "content").k = "str"
        /\ Field(article_data', "content").v \in BodiesWithoutKeyword)
         => /\ files' = files
            /\ stats'.agriculture_articles = stats.agriculture_articles]_vars

(***************************************************************************)
(* C4, amended.  When the lower-cased text title + " " + content of the    *)
(* extraction reply holds no keyword, process_article persists no record   *)
(* and leaves agriculture_articles unchanged, in the extraction step and   *)
(* in the download step alike.                                             *)
(***************************************************************************)
C4_TextWithoutKeywordRejected ==
    [][(/\ pc \in {"article", "download"}
        /\ article_data'.k = "dict"
        /\ Field(article_data', "title").k = "str"
        /\ Field(article_data', "content").k = "str"
        /\ <<Field(article_data', "title").v, Field(article_data', "content").v>>
              \in TextsWithoutKeyword)
         => /\ files' = files
            /\ stats'.agriculture_articles = stats.agriculture_articles
            /\ pc' = "sleep"]_vars

\* An article without any keyword was parsed and skipped.
C4_Witness ==
    /\ pc = "sleep"
    /\ article_data.k = "dict"
    /\ Field(article_data, "title").v = TITLE_DERBY
    /\ Field(article_data, "content").v = BODY_GOALS
    /\ article_outcome = "skipped"

(***************************************************************************)
(* C5.  No failure while handling a URL stops the run or is retried: the   *)
(* run completes having asked the oracle for links exactly once for each   *)
(* configured site URL, in the order of the configuration, with            *)
(* sites_processed equal to the number of sites.  Stated as: the discovery *)
(* calls made are always a prefix of the configured URLs; whenever the run *)
(* is not complete a step can be taken; every step lowers a rank of the    *)
(* work left that cannot fall below zero; and a complete run has made all  *)
(* the calls.                                                              *)
(***************************************************************************)
C5_InCall == pc \in {"links", "article", "download", "sleep", "site_return"}

C5_Rank ==
    << 2 * (Len(ConfiguredUrls) - Len(discovery_calls))
         + (IF C5_InCall THEN 1 ELSE 0),
       IF pc \in {"links", "article", "download", "sleep"}
       THEN Len(article_links) - link_idx + 1 ELSE 0,
       CASE pc = "links" -> 3
         [] pc = "article" -> 2
         [] pc = "download" -> 1
         [] pc = "site_loop" -> 1
         [] OTHER -> 0 >>

C5_Lower(a, b) ==
    \/ a[1] < b[1]
    \/ a[1] = b[1] /\ a[2] < b[2]
    \/ a[1] = b[1] /\ a[2] = b[2] /\ a[3] < b[3]

C6_UnseenSingleEntryExtracted ==
    [][(AtSingleFencedEntry
          /\ Field(CurrentLink, "url") \notin processed_urls)
         => /\ pc' = "article"
            /\ article_url' = Field(CurrentLink, "url").v
            /\ Count(article_url', extraction_calls') = 1]_vars

(***************************************************************************)
(* C6, amended.  When a discovery reply is a fenced list of one entry      *)
(* whose URL has not been seen in this run and matches one of              *)
(* ARTICLE_PATTERNS, process_article is called for it, and that is the     *)
(* only call for that URL.                                                 *)
(***************************************************************************)
C6_UnseenShapedSingleEntryExtracted ==
    [][(AtSingleFencedEntry
          /\ Field(CurrentLink, "url") \notin processed_urls
          /\ Field(CurrentLink, "url").v \in UrlUniverse \ FailsEveryPattern)
         => /\ pc' = "article"
            /\ article_url' = Field(CurrentLink, "url").v
            /\ Count(article_url', extraction_calls') = 1]_vars

\* The fenced one-entry list of URL_DATED led to the one call for URL_DATED.
C6_Witness ==
    /\ pc = "article"
    /\ link_idx = 1
    /\ Len(article_links) = 1
    /\ links_via = "fence"
    /\ Field(article_links[1], "url").v = URL_DATED
    /\ article_url = URL_DATED
    /\ Count(URL_DATED, extraction_calls) = 1

(***************************************************************************)
(* C7.  A reply that holds no JSON token at all (no fenced json block, no  *)
(* bare opening) ends the step as "not found" and changes nothing: for     *)
(* discovery, processed_urls, the counters and the extraction calls are    *)
(* unchanged; for extraction, no record is persisted and the counters are  *)
(* unchanged.  The step returns to its caller as any other.                *)
(***************************************************************************)
C7_NoJsonTokenIsNotFound ==
    [][/\ (/\ pc = "discover"
           /\ links_outcome' # "invoke_error"
           /\ ~HasFencedJson(links_content')
           /\ ~HasBareUrlToken(links_content'))
          => /\ links_outcome' = "not_found"
             /\ pc' = "site_return"
             /\ UNCHANGED <<processed_urls, stats, extraction_calls, files,
                            image_files>>
       /\ (/\ pc = "article"
           /\ article_outcome' # "invoke_error"
           /\ ~HasFencedJson(article_content')
           /\ ~HasBareTitleToken(article_content'))
          => /\ article_outcome' = "not_found"
             /\ pc' = "sleep"
             /\ UNCHANGED <<processed_urls, stats, extraction_calls, files,
                            image_files>>]_vars

\* An extraction reply with an object in a fence that lacks the json label was
\* handled as "not found".
C7_Witness ==
    /\ pc = "sleep"
    /\ article_outcome = "not_found"
    /\ \E i \in 1..Len(article_content) : article_content[i].t = "value"
    /\ ~HasFencedJson(article_content)
    /\ ~HasBareTitleToken(article_content)

(***************************************************************************)
(* C8.  When a reply holds a fenced json block, what process_site and      *)
(* process_article go on with is the parsed text of the first such block,  *)
(* whatever surrounds it; the bare opening is used only when there is no   *)
(* fenced json block.                                                      *)
(***************************************************************************)
C8_FencedBlockWins ==
    /\ HasFencedJson(links_content) =>
          /\ links_via = "fence"
          /\ LET parsed == json_loads(FirstFencedJson(links_content))
             IN  /\ ~parsed.ok => links_outcome = "parse_error"
                 /\ parsed.ok /\ parsed.val.k # "list" =>
                       links_outcome = "not_list"
                 /\ parsed.ok /\ parsed.val.k = "list" =>
                       /\ links_outcome \in {"listed", "loop_error"}
                       /\ JsonEq(Arr(article_links), parsed.val)
    /\ links_via = "bare" => ~HasFencedJson(links_content)
    /\ HasFencedJson(article_content) =>
          /\ article_via = "fence"
          /\ LET parsed == json_loads(FirstFencedJson(article_content))
             IN  /\ ~parsed.ok =>
                       article_outcome = "parse_error" /\ article_data.k = "null"
                 /\ parsed.ok => JsonEq(article_data, parsed.val)
    /\ article_via = "bare" => ~HasFencedJson(article_content)

\* A discovery reply with a bare list in the prose before its fenced list was
\* read as the fenced list.
C8_Witness ==
    /\ HasBareUrlToken(links_content)
    /\ HasFencedJson(links_content)
    /\ links_outcome = "listed"
    /\ Len(article_links) = 1
    /\ Field(article_links[1], "url").v = URL_DATED

(***************************************************************************)
(* C9.  An entry with a non-empty URL not yet seen is added to             *)
(* processed_urls whether or not it survives the shape filter;             *)
(* processed_urls only grows; and a URL that is in processed_urls without  *)
(* having been extracted is never extracted later in the run.              *)
(***************************************************************************)
C9_SeenBeforeFilter ==
    [][/\ processed_urls \subseteq processed_urls'
       /\ (AtStringUrl /\ Field(CurrentLink, "url") \notin processed_urls)
             => Field(CurrentLink, "url") \in processed_urls'
       /\ \A s \in processed_urls :
             s.v \notin Range(extraction_calls)
                => s.v \notin Range(extraction_calls')]_vars

\* A later discovery reply lists https://site/agriculture/x-1, which an
\* earlier page had listed: it is in processed_urls and was never extracted.
C9_Witness ==
    /\ AtStringUrl
    /\ link_idx = 1
    /\ Field(CurrentLink, "url").v = URL_EXAMPLE
    /\ Str(URL_EXAMPLE) \in processed_urls
    /\ URL_EXAMPLE \notin Range(extraction_calls)

(***************************************************************************)
(* C10.  In every state: record files <= agriculture_articles <= calls of  *)
(* process_article <= size of processed_urls <= articles_found, and        *)
(* images_downloaded <= agriculture_articles; no counter ever decreases.   *)
(***************************************************************************)
C10_CountersOrdered ==
    /\ [](/\ Cardinality(files) <= stats.agriculture_articles
          /\ stats.agriculture_articles <= Len(extraction_calls)
          /\ Len(extraction_calls) <= Cardinality(processed_urls)
          /\ Cardinality(processed_urls) <= stats.articles_found
          /\ stats.images_downloaded <= stats.agriculture_articles)
    /\ [][/\ stats'.articles_found >= stats.articles_found
          /\ stats'.agriculture_articles >= stats.agriculture_articles
          /\ stats'.images_downloaded >= stats.images_downloaded
          /\ stats'.sites_processed >= stats.sites_processed
          /\ Cardinality(files') >= Cardinality(files)
          /\ Len(extraction_calls') >= Len(extraction_calls)
          /\ Cardinality(processed_urls') >= Cardinality(processed_urls)]_vars

\* A record was written, another accepted article was not, an image was
\* counted and a listed URL was not extracted.
C10_Witness ==
    /\ Cardinality(files) >= 1
    /\ stats.agriculture_articles > Cardinality(files)
    /\ stats.images_downloaded >= 1
    /\ Cardinality(processed_urls) > Len(extraction_calls)

====
